---- MODULE Spec2Model ----
(***************************************************************************)
(* Model of the SSD1351 OLED driver (oled.c / oled.h): the pixel plane,    *)
(* the drawing state and drawing calls of the foreground callers, and the  *)
(* background task oled_task that brings the display up and then sends the *)
(* plane whenever oled_changed is set.                                     *)
(***************************************************************************)
EXTENDS Integers, Sequences, FiniteSets, TLC

----------------------------------------------------------------------------
(* Bounds of the model *)

\* CONFIG_OLED_WIDTH and CONFIG_OLED_HEIGHT of the modelled build
Width == 4
Height == 1
\* drawing calls a caller makes between one oled_lock and its oled_unlock
MaxOps == 1
\* number of foreground callers
NumCallers == 2
\* transport sends that may fail within one bring-up attempt or update cycle
MaxFails == 1

----------------------------------------------------------------------------
(* Constants of oled.h and oled.c *)

OLED_T == 1
OLED_M == 3
OLED_B == 2
OLED_V == 8
OLED_L == 16
OLED_C == 48
OLED_R == 32
OLED_H == 128

BLACK == 0
ISHIFT == 4
R == 2048
G == 32
B == 1
RED == R + R
GREEN == G + G + G + G
BLUE == B + B
CYAN == GREEN + BLUE
MAGENTA == RED + BLUE
YELLOW == RED + GREEN
WHITE == RED + GREEN + BLUE

\* int try = 10
TryBudget == 10
\* sizeof(fonts) / sizeof(*fonts)
NFonts == 6

\* character codes used by the code
ChSpace == 32
ChDot == 46
ChColon == 58
Ch_k == 107
Ch_w == 119

\* esp_err_t results of a transport send: ESP_OK, or an error code
ESP_OK == 0
SendResults == {ESP_OK, 263}

\* the slots of fonts[] that the build configuration fills (CONFIG_OLED_FONTn)
fonts == [n \in 0 .. (NFonts - 1) |-> n \in {0, 1, 2}]

----------------------------------------------------------------------------
(* C arithmetic *)

\* C integer division truncates towards zero
CDiv(p, q) == IF p >= 0 THEN p \div q ELSE -((-p) \div q)

\* conversion to int16_t (oled_pos_t), uint16_t, uint8_t
ToInt16(v) == ((v + 32768) % 65536) - 32768
ToUint16(v) == v % 65536
ToUint8(v) == v % 256

RECURSIVE BitAnd(_, _)
BitAnd(p, q) ==
    IF p = 0 \/ q = 0 THEN 0
    ELSE (p % 2) * (q % 2) + 2 * BitAnd(p \div 2, q \div 2)

\* ntohs on the little-endian target: swap the two bytes
ntohs(v) == (v % 256) * 256 + (v \div 256)

\* v >> n on an int (arithmetic shift), and ~v
Shr(v, n) == v \div (2 ^ n)
BitNot(v) == -(v + 1)

----------------------------------------------------------------------------
(* Pure functions of oled.c *)

\* character to colour mapping, default is white (CONFIG_OLED_BPP == 16)
oled_colour_lookup(c) ==
    CASE c \in {107, 75} -> BLACK
      [] c = 114 -> RED \div 2
      [] c = 69 -> RED
      [] c = 103 -> GREEN \div 2
      [] c = 71 -> GREEN
      [] c = 98 -> BLUE \div 2
      [] c = 66 -> BLUE
      [] c = 99 -> CYAN \div 2
      [] c = 67 -> CYAN
      [] c = 109 -> MAGENTA \div 2
      [] c = 77 -> MAGENTA
      [] c = 121 -> YELLOW \div 2
      [] c = 89 -> YELLOW
      [] c = 119 -> WHITE \div 2
      [] c \in {111, 79} -> RED + (GREEN \div 2)
      [] OTHER -> WHITE

\* the value oled_pixel stores: ntohs(f * (i >> ISHIFT) + b * ((~i) >> ISHIFT)),
\* f and b being the file-scope colour characters
PixelValue(i, fc, bc) ==
    ntohs(ToUint16(fc * Shr(i, ISHIFT) + bc * Shr(BitNot(i), ISHIFT)))

\* the bounds check of oled_pixel without its tests against 0
PixelInDisplay_NoLow(px, py) == px < Width /\ py < Height

\* whether oled_pixel(px, py, ...) gets past its bounds check and writes oled[]
PixelInDisplay(px, py) == px >= 0 /\ px < Width /\ py >= 0 /\ py < Height

\* the index of oled[] that oled_pixel(px, py, ...) writes
PixelIndex(px, py) == (py * Width) + px

\* oled_pixel: the plane after setting pixel (px, py) to intensity i
oled_pixel(pl, px, py, i, fc, bc) ==
    IF ~PixelInDisplay(px, py)
    THEN pl
    ELSE [pl EXCEPT ![PixelIndex(px, py)] = PixelValue(i, fc, bc)]

\* a run of oled_pixel calls, s a sequence of <<px, py, i>> in call order:
\* each cell is left as the last call that stored to it left it
PixelRun(pl, s, fc, bc) ==
    [k \in DOMAIN pl |->
        LET hits == {j \in DOMAIN s : /\ PixelInDisplay(s[j][1], s[j][2])
                                      /\ PixelIndex(s[j][1], s[j][2]) = k}
            last == CHOOSE j \in hits : \A m \in hits : m <= j
        IN IF hits = {} THEN pl[k]
           ELSE oled_pixel(pl, s[last][1], s[last][2], s[last][3], fc, bc)[k]]

\* whether a run of oled_pixel calls writes oled[] at all
RunTouches(s) == \E k \in DOMAIN s : PixelInDisplay(s[k][1], s[k][2])

\* the indexes of oled[] a run of oled_pixel calls writes
RunIndexes(s) ==
    {PixelIndex(s[k][1], s[k][2]) :
        k \in {j \in DOMAIN s : PixelInDisplay(s[j][1], s[j][2])}}

\* oled_draw with the centre and middle anchors shifted by w / 2 and h / 2
oled_draw_HalfSize(cx, cy, ca, w, h, wm, hm) ==
    LET l == IF BitAnd(ca, OLED_C) = OLED_C THEN ToInt16(cx - CDiv(w, 2))
             ELSE IF BitAnd(ca, OLED_R) # 0 THEN ToInt16(cx - (w - 1))
             ELSE cx
        t == IF BitAnd(ca, OLED_M) = OLED_M THEN ToInt16(cy - CDiv(h, 2))
             ELSE IF BitAnd(ca, OLED_B) # 0 THEN ToInt16(cy - (h - 1))
             ELSE cy
        x1 == IF BitAnd(ca, OLED_H) # 0 /\ BitAnd(ca, OLED_L) # 0
              THEN ToInt16(cx + (w + wm)) ELSE cx
        x2 == IF BitAnd(ca, OLED_H) # 0 /\ BitAnd(ca, OLED_R) # 0
              THEN ToInt16(x1 - (w + wm)) ELSE x1
        y1 == IF BitAnd(ca, OLED_V) # 0 /\ BitAnd(ca, OLED_T) # 0
              THEN ToInt16(cy + (h + hm)) ELSE cy
        y2 == IF BitAnd(ca, OLED_V) # 0 /\ BitAnd(ca, OLED_B) # 0
              THEN ToInt16(y1 - (h + hm)) ELSE y1
    IN [l |-> l, t |-> t, nx |-> x2, ny |-> y2]

\* oled_draw: top left (l, t) of a w x h box placed at cursor (cx, cy) with
\* alignment ca, and the cursor (nx, ny) after the move
oled_draw(cx, cy, ca, w, h, wm, hm) ==
    LET l == IF BitAnd(ca, OLED_C) = OLED_C THEN ToInt16(cx - CDiv(w - 1, 2))
             ELSE IF BitAnd(ca, OLED_R) # 0 THEN ToInt16(cx - (w - 1))
             ELSE cx
        t == IF BitAnd(ca, OLED_M) = OLED_M THEN ToInt16(cy - CDiv(h - 1, 2))
             ELSE IF BitAnd(ca, OLED_B) # 0 THEN ToInt16(cy - (h - 1))
             ELSE cy
        x1 == IF BitAnd(ca, OLED_H) # 0 /\ BitAnd(ca, OLED_L) # 0
              THEN ToInt16(cx + (w + wm)) ELSE cx
        x2 == IF BitAnd(ca, OLED_H) # 0 /\ BitAnd(ca, OLED_R) # 0
              THEN ToInt16(x1 - (w + wm)) ELSE x1
        y1 == IF BitAnd(ca, OLED_V) # 0 /\ BitAnd(ca, OLED_T) # 0
              THEN ToInt16(cy + (h + hm)) ELSE cy
        y2 == IF BitAnd(ca, OLED_V) # 0 /\ BitAnd(ca, OLED_B) # 0
              THEN ToInt16(y1 - (h + hm)) ELSE y1
    IN [l |-> l, t |-> t, nx |-> x2, ny |-> y2]

\* the oled_pixel calls of oled_block16, data a function of the byte offset
\* and l the bytes per row (0: default (w + 1) / 2)
oled_block16(bx, by, w, h, data, l) ==
    LET stride == IF l = 0 THEN CDiv(w + 1, 2) ELSE l
    IN IF w <= 0 \/ h <= 0 THEN <<>>
       ELSE [k \in 1 .. (w * h) |->
               LET col == (k - 1) % w
                   row == (k - 1) \div w
                   v == data[(row * stride) + (col \div 2)]
               IN <<ToInt16(bx + col), ToInt16(by + row),
                    IF col % 2 = 0
                    THEN ((v \div 16) * 16) + (v \div 16)
                    ELSE ToUint8((v % 16) + (v * 16))>>]

\* the oled_pixel calls of oled_clear
ClearRun(i) ==
    [k \in 1 .. (Width * Height) |-> <<(k - 1) % Width, (k - 1) \div Width, i>>]

\* the oled_pixel calls of oled_fill at top left (l, t)
FillRun(l, t, w, h, i) ==
    IF w <= 0 \/ h <= 0 THEN <<>>
    ELSE [k \in 1 .. (w * h) |->
            <<ToInt16(l + ((k - 1) % w)), ToInt16(t + ((k - 1) \div w)), i>>]

\* the oled_pixel calls of oled_box at top left (l, t): the first loop draws
\* rows t and t + h - 1 for n < w, the second loop columns l and l + w - 1
\* for 1 <= n < w - 1
BoxRun(l, t, w, h, i) ==
    LET rows == IF w <= 0 THEN <<>>
                ELSE [k \in 1 .. (2 * w) |->
                        IF k % 2 = 1
                        THEN <<ToInt16(l + ((k - 1) \div 2)), t, i>>
                        ELSE <<ToInt16(l + ((k - 1) \div 2)), ToInt16(t + h - 1), i>>]
        cols == IF w <= 2 THEN <<>>
                ELSE [k \in 1 .. (2 * (w - 2)) |->
                        IF k % 2 = 1
                        THEN <<l, ToInt16(t + 1 + ((k - 1) \div 2)), i>>
                        ELSE <<ToInt16(l + w - 1), ToInt16(t + 1 + ((k - 1) \div 2)), i>>]
    IN rows \o cols

----------------------------------------------------------------------------
(* oled_text *)

\* conversion to int8_t (the size argument)
ToInt8(v) == ((v + 128) % 256) - 128

\* char temp[CONFIG_OLED_WIDTH / 4 + 2], filled by vsnprintf
TempSize == CDiv(Width, 4) + 2
Truncate(str) ==
    IF Len(str) < TempSize THEN str ELSE SubSeq(str, 1, TempSize - 1)

\* effective height z
TextZ(size) == IF size < 0 THEN 9 ELSE IF size = 0 THEN 5 ELSE 7

\* size after "size = -size" and the clamp "if (size > sizeof(fonts) /
\* sizeof(*fonts)) size = ...", whose comparison is unsigned
TextSize(size) ==
    LET s == IF size < 0 THEN ToInt8(-size) ELSE size
    IN IF s < 0 \/ s > NFonts THEN NFonts ELSE s

\* pixel width and height of the characters in the font file
FontW(s) == IF s # 0 THEN 6 * s ELSE 4
FontH(s) == IF s # 0 THEN 9 * s ELSE 5
\* size ?: 1
SizeOr1(s) == IF s # 0 THEN s ELSE 1

\* character width as printed
cwidth(c, s) ==
    IF BitAnd(c, 128) # 0 THEN 0
    ELSE IF s # 0 /\ c < ChSpace THEN c * s
    ELSE IF s # 0 /\ c \in {ChColon, ChDot} THEN s * 2
    ELSE FontW(s)

\* byte offset of the glyph of c in the font file
fontdata(c, s) ==
    CDiv((c - ChSpace) * FontH(s) * FontW(s), 2)
      + (IF c \in {ChColon, ChDot} THEN s ELSE 0)

\* byte k of the font file of size s: the font files are generated and are
\* not part of the sources, this is a fixed pattern standing for them
FontByte(s, k) == ((k * 29) + (s * 53) + 15) % 256

RECURSIVE TextWidthSum(_, _)
TextWidthSum(str, s) ==
    IF str = <<>> THEN 0 ELSE cwidth(str[1], s) + TextWidthSum(Tail(str), s)

\* the text width without the removal of the right hand margin
TextWidth_NoMargin(str, s) == TextWidthSum(str, s)

\* w as passed to oled_draw: the sum, less the right hand margin if not 0
TextWidth(str, s) ==
    LET w == TextWidthSum(str, s) IN IF w # 0 THEN w - SizeOr1(s) ELSE w

TextHeight(size, s) == TextZ(size) * SizeOr1(s)

\* where the glyph bytes come from: the font file of the size, or, when
\* fonts[] was read one past its end, whatever a stray pointer points at
FontFile == <<"font", 0>>

\* byte k behind the font pointer
GlyphByte(src, s, k) == IF src[1] = "font" THEN FontByte(s, k) ELSE src[2]

\* the oled_pixel calls of the glyph loop, starting at (tx, ty); data is
\* what lies behind the font pointer from the glyph of c on, as far as
\* oled_block16 reads it: h rows of fontw / 2 bytes, and in each row the
\* bytes of charw pixels
RECURSIVE GlyphRun(_, _, _, _, _, _)
GlyphRun(str, s, h, tx, ty, src) ==
    IF str = <<>> THEN <<>>
    ELSE LET charw == cwidth(str[1], s)
             c == IF str[1] < ChSpace THEN ChSpace ELSE str[1]
             base == fontdata(c, s)
             data == [k \in 0 .. ((h * CDiv(FontW(s), 2)) + CDiv(charw, 2)) |->
                        GlyphByte(src, s, base + k)]
         IN IF charw # 0
            THEN oled_block16(tx, ty, charw, h, data, CDiv(FontW(s), 2))
                   \o GlyphRun(Tail(str), s, h, ToInt16(tx + charw), ty, src)
            ELSE GlyphRun(Tail(str), s, h, tx, ty, src)

\* the glyph loop with a font of the table
TextRun(str, s, h, tx, ty) == GlyphRun(str, s, h, tx, ty, FontFile)

----------------------------------------------------------------------------
(* State *)

VARIABLES
    oled,           \* the plane pointer: "alloc", "freed" (dangling) or "null"
    plane,          \* the cells oled[0 .. Width*Height-1]
    mutex,          \* holder of oled_mutex: Free, Task or Caller(c)
    oled_locks,
    oled_changed,
    oled_update,
    oled_contrast,
    x, y, a, f, b, f_mul, b_mul,    \* drawing state
    oled_rst,       \* GPIO of the reset line, negative when there is none
    oled_flip,      \* set by oled_start from its argument flip
    try, e,         \* locals of oled_task
    tpc,            \* position of oled_task
    sendidx,        \* next send of the frame sequence oled_task is in
    cpc,            \* position of each caller: "idle", "cs" (between oled_lock
                    \* and oled_unlock), "clear" (inside oled_clear) or "text"
                    \* (inside oled_text, at its glyph loop)
    cops,           \* calls made in the section a caller is in
    carg,           \* of the call in progress: the argument of oled_clear, or
                    \* the oled_pixel calls ahead of oled_text and whether
                    \* its font pointer is a stray one
    drawn,          \* the last call made in the section a caller is in: its
                    \* arguments, the locals it computed and its oled_pixel calls
    wire,           \* what oled_task put on the pins since it took the lock:
                    \* the sends, and the levels of the reset line
    nfail,          \* how many of them failed
    stale,          \* a drawing call changed a cell since the last frame send began
    crashed,        \* the processor trapped on an access through a bad pointer
    badAccess       \* plane storage was accessed after it was released

vars == <<oled, plane, mutex, oled_locks, oled_changed, oled_update,
          oled_contrast, x, y, a, f, b, f_mul, b_mul, oled_rst, oled_flip,
          try, e, tpc, sendidx, cpc, cops, carg, drawn, wire, nfail, stale,
          crashed, badAccess>>

drawvars == <<x, y, a, f, b, f_mul, b_mul>>
pinvars == <<oled_rst, oled_flip>>
taskvars == <<try, e, tpc, sendidx, wire, nfail, pinvars>>
flagvars == <<oled_changed, oled_update, oled_contrast>>
planevars == <<oled, plane, stale, crashed, badAccess>>
lockvars == <<mutex, oled_locks>>
callvars == <<cpc, cops, carg, drawn>>

Callers == 1 .. NumCallers
Cells == 0 .. ((Width * Height) - 1)
NoArg == <<>>
NoCall == [op |-> "none"]

\* holders of oled_mutex
Free == <<"none">>
Task == <<"task">>
Caller(c) == <<"caller", c>>

\* the 19 configuration commands whose results are summed into e, each
\* with its first argument; 0xA0 gets 0x34 when oled_flip is set, else 0x26
ConfigCmds(flip) ==
    << <<"AF", 0>>, <<"A5", 0>>, <<"A0", IF flip # 0 THEN 52 ELSE 38>>,
       <<"FD", 18>>, <<"FD", 177>>,
       <<"B3", 241>>, <<"CA", 127>>, <<"A1", 0>>, <<"A2", 0>>, <<"AB", 1>>,
       <<"B4", 160>>, <<"C1", 200>>, <<"C7", 15>>, <<"B1", 50>>, <<"B2", 164>>,
       <<"BB", 23>>, <<"B6", 1>>, <<"BE", 5>>, <<"FD", 176>> >>

\* the sends that follow in a bring-up attempt, results not looked at
BringupTail ==
    << <<"15", 127>>, <<"75", 127>>, <<"5C", 0>>, <<"data", 0>>, <<"A6", 0>> >>

\* the sends of an update cycle up to the frame data
UpdateCmds ==
    << <<"15", 127>>, <<"75", 127>>, <<"5C", 0>>, <<"data", 0>> >>

\* the arguments rst and flip of oled_start
StartInputs == { <<-1, 0>>, <<4, 1>> }

\* state after oled_start returned NULL: plane allocated and zeroed, mutex
\* created, oled_rst and oled_flip stored, oled_task created and not yet run
Init ==
    /\ oled = "alloc"
    /\ \E s \in StartInputs : oled_rst = s[1] /\ oled_flip = s[2]
    /\ plane = [k \in Cells |-> 0]
    /\ mutex = Free
    /\ oled_locks = 0
    /\ oled_changed = 1
    /\ oled_update = 0
    /\ oled_contrast = 255
    /\ x = 0 /\ y = 0 /\ a = 0 /\ f = 0 /\ b = 0 /\ f_mul = 0 /\ b_mul = 0
    /\ try = TryBudget
    /\ e = 0
    /\ tpc = "bu_loop"
    /\ sendidx = 0
    /\ cpc = [c \in Callers |-> "idle"]
    /\ cops = 0
    /\ carg = NoArg
    /\ drawn = NoCall
    /\ wire = <<>>
    /\ nfail = 0
    /\ stale = FALSE
    /\ crashed = FALSE
    /\ badAccess = FALSE

----------------------------------------------------------------------------
(* oled_lock and oled_unlock, as called by the callers and by oled_task *)

\* oled_lock without the xSemaphoreTake
oled_lock_NoTake(who) ==
    /\ mutex' = who
    /\ oled_locks' = oled_locks + 1
    /\ b' = Ch_k
    /\ b_mul' = oled_colour_lookup(Ch_k)
    /\ f' = Ch_w
    /\ f_mul' = oled_colour_lookup(Ch_w)
    /\ x' = 0
    /\ y' = 0
    /\ a' = OLED_L + OLED_T + OLED_H

\* oled_lock without the preset of the drawing state
oled_lock_NoPreset(who) ==
    /\ mutex = Free
    /\ mutex' = who
    /\ oled_locks' = oled_locks + 1
    /\ UNCHANGED <<x, y, a, f, b, f_mul, b_mul>>

\* xSemaphoreTake, oled_locks++, then oled_background('k'), oled_colour('w'),
\* oled_pos(0, 0, OLED_L | OLED_T | OLED_H)
oled_lock(who) ==
    /\ mutex = Free
    /\ mutex' = who
    /\ oled_locks' = oled_locks + 1
    /\ b' = Ch_k
    /\ b_mul' = oled_colour_lookup(Ch_k)
    /\ f' = Ch_w
    /\ f_mul' = oled_colour_lookup(Ch_w)
    /\ x' = 0
    /\ y' = 0
    /\ a' = OLED_L + OLED_T + OLED_H

\* oled_locks--, xSemaphoreGive
oled_unlock(who) ==
    /\ oled_locks' = oled_locks - 1
    /\ mutex' = Free

----------------------------------------------------------------------------
(* Arguments the callers use *)

PosInputs == { <<1, 0, 0>>, <<1, 1, OLED_R + OLED_B + OLED_V>> }
ColourInputs == { Ch_k }
BackgroundInputs == { Ch_w }
ClearInputs == { 0 }
BoxInputs == { <<2, 2, 255>> }
FillInputs == { <<1, 1, 255>>, <<2, 1, 0>> }
IconInputs == { <<1, 1, "NULL">>, <<2, 1, <<240>> >> }
TextInputs == { <<1, <<56>> >>, <<3, <<56>> >> }
ContrastInputs == { 128 }

----------------------------------------------------------------------------
(* The calls of the foreground callers.  A caller follows the discipline of *)
(* the header: drawing and state calls are made between oled_lock and       *)
(* oled_unlock; oled_set_contrast is made at any time.                      *)

\* nothing runs once the processor has trapped
CallerAt(c, p) == cpc[c] = p /\ ~crashed
InSection(c) == CallerAt(c, "cs") /\ cops < MaxOps

\* the effect of a run of oled_pixel calls on the plane storage
Paint(run) ==
    IF oled = "alloc" /\ RunIndexes(run) \subseteq Cells
    THEN /\ plane' = PixelRun(plane, run, f, b)
         /\ stale' = (stale \/ plane' # plane)
         /\ UNCHANGED <<oled, crashed, badAccess>>
    ELSE IF oled = "alloc"
    THEN \* a store outside the allocated cells
         /\ plane' = PixelRun(plane, run, f, b)
         /\ badAccess' = TRUE
         /\ crashed' \in BOOLEAN
         /\ UNCHANGED <<oled, stale>>
    ELSE IF RunTouches(run)
    THEN \* a store through NULL or through the freed pointer
         /\ badAccess' = TRUE
         /\ crashed' \in BOOLEAN
         /\ UNCHANGED <<oled, plane, stale>>
    ELSE UNCHANGED planevars

CallLock(c) ==
    /\ CallerAt(c, "idle")
    /\ oled_lock(Caller(c))
    /\ cpc' = [cpc EXCEPT ![c] = "cs"]
    /\ UNCHANGED <<cops, carg, drawn, taskvars, flagvars, planevars>>

CallUnlock(c) ==
    /\ CallerAt(c, "cs")
    /\ oled_unlock(Caller(c))
    /\ cpc' = [cpc EXCEPT ![c] = "idle"]
    /\ cops' = 0
    /\ drawn' = NoCall
    /\ UNCHANGED <<carg, drawvars, taskvars, flagvars, planevars>>

\* oled_pos without the default for an alignment of 0
oled_pos_NoDefault(c, newx, newy, newa) ==
    /\ InSection(c)
    /\ x' = newx
    /\ y' = newy
    /\ a' = newa
    /\ cops' = cops + 1
    /\ drawn' = [op |-> "pos", newx |-> newx, newy |-> newy, newa |-> newa]
    /\ UNCHANGED <<f, b, f_mul, b_mul, cpc, carg, lockvars, taskvars, flagvars,
                   planevars>>

oled_pos(c, newx, newy, newa) ==
    /\ InSection(c)
    /\ x' = newx
    /\ y' = newy
    /\ a' = (IF newa # 0 THEN newa ELSE OLED_L + OLED_T + OLED_H)
    /\ cops' = cops + 1
    /\ drawn' = [op |-> "pos", newx |-> newx, newy |-> newy, newa |-> newa]
    /\ UNCHANGED <<f, b, f_mul, b_mul, cpc, carg, lockvars, taskvars, flagvars,
                   planevars>>

oled_colour(c, newf) ==
    /\ InSection(c)
    /\ f' = newf
    /\ f_mul' = oled_colour_lookup(newf)
    /\ cops' = cops + 1
    /\ drawn' = [op |-> "colour", newf |-> newf]
    /\ UNCHANGED <<x, y, a, b, b_mul, cpc, carg, lockvars, taskvars, flagvars,
                   planevars>>

oled_background(c, newb) ==
    /\ InSection(c)
    /\ b' = newb
    /\ b_mul' = oled_colour_lookup(newb)
    /\ cops' = cops + 1
    /\ drawn' = [op |-> "background", newb |-> newb]
    /\ UNCHANGED <<x, y, a, f, f_mul, cpc, carg, lockvars, taskvars, flagvars,
                   planevars>>

\* oled_clear up to its test of the plane pointer
oled_clear(c, i) ==
    /\ InSection(c)
    /\ IF oled = "null"
       THEN /\ cops' = cops + 1
            /\ drawn' = [op |-> "clear", i |-> i, run |-> <<>>]
            /\ UNCHANGED <<cpc, carg>>
       ELSE /\ cpc' = [cpc EXCEPT ![c] = "clear"]
            /\ carg' = <<i>>
            /\ UNCHANGED <<cops, drawn>>
    /\ UNCHANGED <<drawvars, lockvars, taskvars, flagvars, planevars>>

\* the loops of oled_clear
oled_clear_loop(c) ==
    /\ CallerAt(c, "clear")
    /\ Paint(ClearRun(carg[1]))
    /\ cpc' = [cpc EXCEPT ![c] = "cs"]
    /\ carg' = NoArg
    /\ cops' = cops + 1
    /\ drawn' = [op |-> "clear", i |-> carg[1], run |-> ClearRun(carg[1])]
    /\ UNCHANGED <<drawvars, lockvars, taskvars, flagvars>>

oled_box(c, w, h, i) ==
    /\ InSection(c)
    /\ LET d == oled_draw(x, y, a, w, h, 0, 0)
       IN /\ x' = d.nx
          /\ y' = d.ny
          /\ Paint(BoxRun(d.l, d.t, w, h, i))
          /\ drawn' = [op |-> "box", w |-> w, h |-> h, i |-> i, l |-> d.l,
                       t |-> d.t, run |-> BoxRun(d.l, d.t, w, h, i)]
    /\ cops' = cops + 1
    /\ UNCHANGED <<a, f, b, f_mul, b_mul, cpc, carg, lockvars, taskvars, flagvars>>

oled_fill(c, w, h, i) ==
    /\ InSection(c)
    /\ LET d == oled_draw(x, y, a, w, h, 0, 0)
       IN /\ x' = d.nx
          /\ y' = d.ny
          /\ Paint(FillRun(d.l, d.t, w, h, i))
          /\ drawn' = [op |-> "fill", w |-> w, h |-> h, i |-> i, l |-> d.l,
                       t |-> d.t, run |-> FillRun(d.l, d.t, w, h, i)]
    /\ cops' = cops + 1
    /\ UNCHANGED <<a, f, b, f_mul, b_mul, cpc, carg, lockvars, taskvars, flagvars>>

\* data "NULL": oled_fill(w, h, 0); else the packed bytes of the icon
oled_icon16(c, w, h, data) ==
    IF data = "NULL"
    THEN oled_fill(c, w, h, 0)
    ELSE /\ InSection(c)
         /\ LET d == oled_draw(x, y, a, w, h, 0, 0)
                bytes == [k \in 0 .. (Len(data) - 1) |-> data[k + 1]]
            IN /\ x' = d.nx
               /\ y' = d.ny
               /\ Paint(oled_block16(d.l, d.t, w, h, bytes, 0))
               /\ drawn' = [op |-> "icon", w |-> w, h |-> h, l |-> d.l,
                            t |-> d.t,
                            run |-> oled_block16(d.l, d.t, w, h, bytes, 0)]
         /\ cops' = cops + 1
         /\ UNCHANGED <<a, f, b, f_mul, b_mul, cpc, carg, lockvars, taskvars,
                        flagvars>>

\* bytes a stray font pointer may point at
StrayBytes == { 0, 90, 255 }

\* what the read of fonts[size] gives when size is one past the table: NULL,
\* a pointer that cannot be read, or a pointer to readable bytes
SlotReads ==
    { <<"null", 0>>, <<"wild", 0>> } \cup { <<"stray", v>> : v \in StrayBytes }

\* what the read of fonts[size] can give: the font file of a size of the
\* table, any of SlotReads one past it
FontReads(size) == IF TextSize(size) < NFonts THEN { FontFile } ELSE SlotReads

\* oled_text on the formatted string str, up to its glyph loop: the test of
\* the plane pointer, oled_changed = 1, the font lookup, the measuring and
\* oled_draw; slot is what the read of fonts[size] gives
oled_text(c, size, str, slot) ==
    /\ InSection(c)
    /\ IF oled = "null"
       THEN /\ drawn' = [op |-> "text", size |-> size, str |-> str,
                         run |-> <<>>]
            /\ UNCHANGED <<x, y, oled_changed, cpc, carg>>
       ELSE /\ oled_changed' = 1
            /\ LET temp == Truncate(str)
                   s == TextSize(size)
                   loaded == IF s < NFonts THEN fonts[s] ELSE slot[1] # "null"
                   wild == s >= NFonts /\ slot[1] = "wild"
                   w == TextWidth(temp, s)
                   h == TextHeight(size, s)
                   d == oled_draw(x, y, a, w, h, SizeOr1(s), SizeOr1(s))
                   run == IF wild THEN <<>>
                          ELSE GlyphRun(temp, s, h, d.l, d.t, slot)
               IN IF ~loaded
                  THEN /\ drawn' = [op |-> "text", size |-> size, str |-> str,
                                    index |-> s, loaded |-> FALSE,
                                    run |-> <<>>]
                       /\ UNCHANGED <<x, y, cpc, carg>>
                  ELSE /\ x' = d.nx
                       /\ y' = d.ny
                       /\ cpc' = [cpc EXCEPT ![c] = "text"]
                       /\ carg' = <<run, wild /\ TextWidthSum(temp, s) # 0>>
                       /\ drawn' = [op |-> "text", size |-> size, str |-> str,
                                    index |-> s, loaded |-> TRUE, temp |-> temp,
                                    w |-> w, h |-> h, wm |-> SizeOr1(s),
                                    hm |-> SizeOr1(s), l |-> d.l, t |-> d.t,
                                    run |-> run]
    /\ cops' = cops + 1
    /\ UNCHANGED <<a, f, b, f_mul, b_mul, oled_update, oled_contrast, lockvars,
                   taskvars, planevars>>

\* the glyph loop of oled_text: the oled_block16 calls store the pixels, or
\* trap on the first read of a glyph through a stray font pointer
oled_text_loop(c) ==
    /\ CallerAt(c, "text")
    /\ IF carg[2]
       THEN crashed' = TRUE /\ UNCHANGED <<oled, plane, stale, badAccess>>
       ELSE Paint(carg[1])
    /\ cpc' = [cpc EXCEPT ![c] = "cs"]
    /\ carg' = NoArg
    /\ UNCHANGED <<cops, drawn, drawvars, lockvars, taskvars, flagvars>>

\* oled_set_contrast without "oled_changed = 1"
oled_set_contrast_NoDirty(contrast) ==
    /\ ~crashed
    /\ IF oled = "null"
       THEN UNCHANGED vars
       ELSE
         /\ oled_contrast' = contrast
         /\ oled_update' = 1
         /\ UNCHANGED <<oled_changed, drawvars, lockvars, taskvars, planevars,
                        callvars>>

\* made by any caller, inside or outside a section
oled_set_contrast(contrast) ==
    /\ ~crashed
    /\ IF oled = "null"
       THEN UNCHANGED vars
       ELSE
         /\ oled_contrast' = contrast
         /\ oled_update' = 1
         /\ oled_changed' = 1
         /\ UNCHANGED <<drawvars, lockvars, taskvars, planevars, callvars>>

----------------------------------------------------------------------------
(* oled_task *)

TaskAt(p) == tpc = p /\ ~crashed

\* results a send of oled_task may have, given the failures so far
ResultsNow == IF nfail < MaxFails THEN SendResults ELSE {ESP_OK}

\* "while (try-- >= 0)": one attempt more
LoopTest_OneMore(t) == [enter |-> (t >= 0), try |-> t - 1]

\* "while (try--)": whether the body runs, and the value of try after the test
LoopTest(t) == [enter |-> (t # 0), try |-> t - 1]

\* "while (try--)", evaluated after the start-up delay and after the
\* sleep(1) that follows a failed attempt
TaskLoop ==
    /\ TaskAt("bu_loop")
    /\ try' = LoopTest(try).try
    /\ tpc' = (IF LoopTest(try).enter THEN "bu_lock" ELSE "bu_after")
    /\ UNCHANGED <<e, sendidx, wire, nfail, pinvars, drawvars, lockvars,
                   flagvars, planevars, callvars>>

\* oled_lock() of a bring-up attempt, and "if (oled_rst >= 0)"
TaskAttemptLock ==
    /\ TaskAt("bu_lock")
    /\ oled_lock(Task)
    /\ tpc' = (IF oled_rst >= 0 THEN "bu_reset" ELSE "bu_config")
    /\ sendidx' = (IF oled_rst >= 0 THEN 0 ELSE 1)
    /\ UNCHANGED <<try, e, wire, nfail, pinvars, flagvars, planevars,
                   callvars>>

\* gpio_set_level(oled_rst, 0); usleep(1000); and then
\* gpio_set_level(oled_rst, 1); usleep(1000): sendidx is the level to set
TaskReset ==
    /\ TaskAt("bu_reset")
    /\ wire' = Append(wire, <<"RST", sendidx>>)
    /\ IF sendidx = 0
       THEN sendidx' = 1 /\ tpc' = "bu_reset"
       ELSE sendidx' = 1 /\ tpc' = "bu_config"
    /\ UNCHANGED <<try, e, nfail, pinvars, drawvars, lockvars, flagvars,
                   planevars, callvars>>

\* one of e = oled_cmd(0xAF); usleep(10000); e += oled_cmd(0xA5); ...
\* e += oled_cmd1(0xFD, 0xB0), with result r
TaskConfig(r) ==
    /\ TaskAt("bu_config")
    /\ e' = (IF sendidx = 1 THEN r ELSE e + r)
    /\ wire' = Append(wire, ConfigCmds(oled_flip)[sendidx])
    /\ nfail' = (IF r # ESP_OK THEN nfail + 1 ELSE nfail)
    /\ IF sendidx < Len(ConfigCmds(oled_flip))
       THEN sendidx' = sendidx + 1 /\ tpc' = "bu_config"
       ELSE sendidx' = 1 /\ tpc' = "bu_send"
    /\ UNCHANGED <<try, pinvars, drawvars, lockvars, flagvars, planevars,
                   callvars>>

\* oled_cmd2(0x15), oled_cmd2(0x75), oled_cmd(0x5C), oled_data, oled_cmd(0xA6)
\* of a bring-up attempt: the result r is dropped
TaskAttemptSend(r) ==
    /\ TaskAt("bu_send")
    /\ wire' = Append(wire, BringupTail[sendidx])
    /\ nfail' = (IF r # ESP_OK THEN nfail + 1 ELSE nfail)
    /\ stale' = (IF BringupTail[sendidx][1] = "data" THEN FALSE ELSE stale)
    /\ IF sendidx < Len(BringupTail)
       THEN sendidx' = sendidx + 1 /\ tpc' = "bu_send"
       ELSE sendidx' = 0 /\ tpc' = "bu_unlock"
    /\ UNCHANGED <<try, e, pinvars, oled, plane, crashed, badAccess, drawvars,
                   lockvars, flagvars, callvars>>

\* oled_unlock() of a bring-up attempt, then "if (!e) break;": a failed
\* attempt goes on to sleep(1) and the next loop test
TaskAttemptEnd ==
    /\ TaskAt("bu_unlock")
    /\ oled_unlock(Task)
    /\ wire' = <<>>
    /\ nfail' = 0
    /\ tpc' = (IF e = 0 THEN "bu_after" ELSE "bu_loop")
    /\ UNCHANGED <<try, e, sendidx, pinvars, flagvars, drawvars, planevars,
                   callvars>>

\* after the loop: "if (e) { ESP_LOGE(...); ..." or else "oled_update = 1"
TaskAfter ==
    /\ TaskAt("bu_after")
    /\ IF e # 0
       THEN tpc' = "bu_free" /\ UNCHANGED oled_update
       ELSE tpc' = "poll" /\ oled_update' = 1
    /\ UNCHANGED <<try, e, sendidx, wire, nfail, pinvars, oled_changed,
                   oled_contrast, drawvars, lockvars, planevars, callvars>>

\* free(oled)
TaskFree ==
    /\ TaskAt("bu_free")
    /\ oled' = "freed"
    /\ tpc' = "bu_null"
    /\ UNCHANGED <<plane, stale, crashed, badAccess, pinvars, try, e, sendidx,
                   wire, nfail, drawvars, lockvars, flagvars, callvars>>

\* oled = NULL; oled_port = -1; vTaskDelete(NULL)
TaskDisable ==
    /\ TaskAt("bu_null")
    /\ oled' = "null"
    /\ tpc' = "deleted"
    /\ UNCHANGED <<plane, stale, crashed, badAccess, pinvars, try, e, sendidx,
                   wire, nfail, drawvars, lockvars, flagvars, callvars>>

\* the update loop without its test of oled_changed
TaskPoll_Always ==
    /\ TaskAt("poll")
    /\ tpc' = "up_lock"
    /\ UNCHANGED <<pinvars, try, e, sendidx, wire, nfail, drawvars, lockvars,
                   flagvars, planevars, callvars>>

\* "if (!oled_changed) { usleep(100000); continue; }"
TaskPoll ==
    /\ TaskAt("poll")
    /\ IF oled_changed = 0
       THEN UNCHANGED vars
       ELSE /\ tpc' = "up_lock"
            /\ UNCHANGED <<pinvars, try, e, sendidx, wire, nfail, drawvars, lockvars,
                           flagvars, planevars, callvars>>

\* oled_lock() of an update cycle
TaskCycleLock ==
    /\ TaskAt("up_lock")
    /\ oled_lock(Task)
    /\ tpc' = "up_clear"
    /\ UNCHANGED <<pinvars, try, e, sendidx, wire, nfail, flagvars, planevars, callvars>>

\* oled_changed = 0
TaskCycleClear ==
    /\ TaskAt("up_clear")
    /\ oled_changed' = 0
    /\ tpc' = "up_send"
    /\ sendidx' = 1
    /\ UNCHANGED <<pinvars, try, e, wire, nfail, oled_update, oled_contrast, drawvars,
                   lockvars, planevars, callvars>>

\* oled_cmd2(0x15), oled_cmd2(0x75), oled_cmd(0x5C), oled_data of an update
\* cycle: the result r is dropped
TaskCycleSend(r) ==
    /\ TaskAt("up_send")
    /\ wire' = Append(wire, UpdateCmds[sendidx])
    /\ nfail' = (IF r # ESP_OK THEN nfail + 1 ELSE nfail)
    /\ stale' = (IF UpdateCmds[sendidx][1] = "data" THEN FALSE ELSE stale)
    /\ IF sendidx < Len(UpdateCmds)
       THEN sendidx' = sendidx + 1 /\ tpc' = "up_send"
       ELSE sendidx' = 0 /\ tpc' = "up_update"
    /\ UNCHANGED <<pinvars, try, e, oled, plane, crashed, badAccess, drawvars, lockvars,
                   flagvars, callvars>>

\* "if (oled_update) { oled_update = 0; ..."
TaskCycleUpdate ==
    /\ TaskAt("up_update")
    /\ IF oled_update # 0
       THEN oled_update' = 0 /\ tpc' = "up_contrast"
       ELSE tpc' = "up_unlock" /\ UNCHANGED oled_update
    /\ UNCHANGED <<pinvars, try, e, sendidx, wire, nfail, oled_changed, oled_contrast,
                   drawvars, lockvars, planevars, callvars>>

\* oled_cmd1(0xC7, oled_contrast >> 4): the result r is dropped
TaskCycleContrast(r) ==
    /\ TaskAt("up_contrast")
    /\ wire' = Append(wire, <<"C7", Shr(oled_contrast, 4)>>)
    /\ nfail' = (IF r # ESP_OK THEN nfail + 1 ELSE nfail)
    /\ tpc' = "up_unlock"
    /\ UNCHANGED <<pinvars, try, e, sendidx, drawvars, lockvars, flagvars, planevars,
                   callvars>>

\* oled_unlock() of an update cycle
TaskCycleEnd ==
    /\ TaskAt("up_unlock")
    /\ oled_unlock(Task)
    /\ wire' = <<>>
    /\ nfail' = 0
    /\ tpc' = "poll"
    /\ UNCHANGED <<pinvars, try, e, sendidx, drawvars, flagvars, planevars, callvars>>

----------------------------------------------------------------------------
(* Specification *)

TaskStep ==
    \/ TaskLoop
    \/ TaskAttemptLock
    \/ TaskReset
    \/ \E r \in ResultsNow : TaskConfig(r)
    \/ \E r \in ResultsNow : TaskAttemptSend(r)
    \/ TaskAttemptEnd
    \/ TaskAfter
    \/ TaskFree
    \/ TaskDisable
    \/ TaskPoll
    \/ TaskCycleLock
    \/ TaskCycleClear
    \/ \E r \in ResultsNow : TaskCycleSend(r)
    \/ TaskCycleUpdate
    \/ \E r \in ResultsNow : TaskCycleContrast(r)
    \/ TaskCycleEnd

CallerStep ==
    \/ \E c \in Callers : CallLock(c)
    \/ \E c \in Callers : CallUnlock(c)
    \/ \E c \in Callers, p \in PosInputs : oled_pos(c, p[1], p[2], p[3])
    \/ \E c \in Callers, t \in ColourInputs : oled_colour(c, t)
    \/ \E c \in Callers, t \in BackgroundInputs : oled_background(c, t)
    \/ \E c \in Callers, i \in ClearInputs : oled_clear(c, i)
    \/ \E c \in Callers : oled_clear_loop(c)
    \/ \E c \in Callers, p \in BoxInputs : oled_box(c, p[1], p[2], p[3])
    \/ \E c \in Callers, p \in FillInputs : oled_fill(c, p[1], p[2], p[3])
    \/ \E c \in Callers, p \in IconInputs : oled_icon16(c, p[1], p[2], p[3])
    \/ \E c \in Callers, p \in TextInputs : \E slot \in FontReads(p[1]) :
          oled_text(c, p[1], p[2], slot)
    \/ \E c \in Callers : oled_text_loop(c)
    \/ \E v \in ContrastInputs : oled_set_contrast(v)

Next == TaskStep \/ CallerStep

Spec == Init /\ [][Next]_vars

\* oled_task is scheduled whenever it can run, and a task blocked in
\* xSemaphoreTake gets the mutex when it is given; a caller that took the
\* lock returns from its call and gives the lock back
FairSpec ==
    /\ Spec
    /\ WF_vars(TaskStep)
    /\ SF_vars(TaskAttemptLock)
    /\ SF_vars(TaskCycleLock)
    /\ WF_vars(\E c \in Callers : oled_clear_loop(c))
    /\ WF_vars(\E c \in Callers : oled_text_loop(c))
    /\ WF_vars(\E c \in Callers : CallUnlock(c))

----------------------------------------------------------------------------
(* The drawing calls on their own: a caller holds the lock while oled_task  *)
(* polls with oled_changed clear, has set the cursor, the alignment and the *)
(* colours, and makes one more call with arguments from the sets below.     *)

DrawCursors == { <<0, 0>>, <<1, 0>>, <<-1, 0>>, <<0, -1>>, <<50, 50>> }
DrawAligns ==
    { ha + va + mv : ha \in {0, OLED_L, OLED_R, OLED_C},
                     va \in {0, OLED_T, OLED_B, OLED_M},
                     mv \in {0, OLED_H, OLED_V, OLED_H + OLED_V} } \ {0}
DrawColours == { <<Ch_w, Ch_k>>, <<Ch_k, Ch_w>>, <<114, 122>> }
DrawPosInputs == { <<3, 2, 0>>, <<50, 50, OLED_C + OLED_M>> }
DrawColourInputs == { Ch_k, 69, 122 }
DrawFillInputs ==
    { <<1, 1, 0>>, <<1, 1, 255>>, <<1, 1, 16>>, <<2, 1, 128>>, <<2, 2, 15>>,
      <<3, 4, 255>>, <<11, 7, 255>> }
DrawBoxInputs ==
    { <<1, 1, 255>>, <<2, 2, 255>>, <<3, 3, 0>>, <<3, 5, 255>>, <<5, 3, 255>>,
      <<4, 4, 128>> }
DrawIconInputs ==
    { <<1, 1, "NULL">>, <<2, 1, <<240>> >>, <<2, 2, <<18, 52>> >>,
      <<3, 1, <<18, 52>> >> }
DrawTextInputs ==
    { <<-128, <<ChDot>> >>, <<7, <<ChDot>> >>, <<6, <<56>> >>, <<6, <<>> >>,
      <<3, <<56>> >>, <<2, <<56>> >>, <<2, <<56, 56>> >>, <<2, <<>> >>,
      <<1, <<56>> >>, <<1, <<ChDot>> >>, <<1, <<3>> >>, <<1, <<200>> >>,
      <<1, <<9>> >>, <<1, <<>> >>, <<0, <<56>> >>, <<0, <<ChColon>> >>,
      <<-1, <<56>> >>, <<-2, <<56>> >>, <<1, <<56, ChDot, 56>> >>,
      <<1, <<200, 3>> >> }

DrawInit ==
    /\ oled = "alloc"
    /\ plane = [k \in Cells |-> 0]
    /\ mutex = Caller(1)
    /\ oled_locks = 1
    /\ oled_changed = 0
    /\ oled_update = 0
    /\ oled_contrast = 255
    /\ \E p \in DrawCursors : x = p[1] /\ y = p[2]
    /\ a \in DrawAligns
    /\ \E t \in DrawColours :
          /\ f = t[1] /\ f_mul = oled_colour_lookup(t[1])
          /\ b = t[2] /\ b_mul = oled_colour_lookup(t[2])
    /\ oled_rst = -1
    /\ oled_flip = 0
    /\ try = TryBudget - 1
    /\ e = 0
    /\ tpc = "poll"
    /\ sendidx = 0
    /\ cpc = [c \in Callers |-> IF c = 1 THEN "cs" ELSE "idle"]
    /\ cops = MaxOps - 1
    /\ carg = NoArg
    /\ drawn = NoCall
    /\ wire = <<>>
    /\ nfail = 0
    /\ stale = FALSE
    /\ crashed = FALSE
    /\ badAccess = FALSE

DrawNext ==
    \/ \E c \in Callers, p \in DrawPosInputs : oled_pos(c, p[1], p[2], p[3])
    \/ \E c \in Callers, t \in DrawColourInputs : oled_colour(c, t)
    \/ \E c \in Callers, t \in DrawColourInputs : oled_background(c, t)
    \/ \E c \in Callers, i \in {0, 255} : oled_clear(c, i)
    \/ \E c \in Callers : oled_clear_loop(c)
    \/ \E c \in Callers, p \in DrawBoxInputs : oled_box(c, p[1], p[2], p[3])
    \/ \E c \in Callers, p \in DrawFillInputs : oled_fill(c, p[1], p[2], p[3])
    \/ \E c \in Callers, p \in DrawIconInputs : oled_icon16(c, p[1], p[2], p[3])
    \/ \E c \in Callers, p \in DrawTextInputs :
          \E slot \in FontReads(p[1]) :
          oled_text(c, p[1], p[2], slot)
    \/ \E c \in Callers : oled_text_loop(c)

DrawSpec == DrawInit /\ [][DrawNext]_vars

----------------------------------------------------------------------------
(* Properties *)

\* oled_task is in its update loop
Running ==
    tpc \in {"poll", "up_lock", "up_clear", "up_send", "up_update",
             "up_contrast", "up_unlock"}

\* oled_task is in a bring-up attempt
Attempting ==
    tpc \in {"bu_lock", "bu_reset", "bu_config", "bu_send", "bu_unlock"}

\* oled_task is between its oled_lock and its oled_unlock
TaskHolds ==
    tpc \in {"bu_reset", "bu_config", "bu_send", "bu_unlock", "up_clear",
             "up_send", "up_update", "up_contrast", "up_unlock"}

\* oled_task has given up: the plane is being or has been released
Disabled == tpc \in {"bu_free", "bu_null", "deleted"}

\* C1: while oled_task is in its update loop, a change a drawing call made
\* to a cell of the plane is eventually followed by the start of a frame
\* transmission.
C1_EventualDelivery ==
    (Running /\ stale /\ \A c \in Callers : cpc[c] = "idle") ~> ~stale


\* C2: an update cycle in which a send failed ends with oled_changed set.
C2_FailureRetried ==
    [][(tpc = "up_unlock" /\ nfail > 0 /\ tpc' = "poll") => oled_changed' = 1]_vars

\* C3: a bring-up attempt is started only by the loop test and only with
\* budget left, each attempt uses up one of the TryBudget tries, a failed
\* attempt (e # 0) goes back to the loop test, the loop is left with e # 0
\* only when the budget is used up, which leads to the release of the plane,
\* after which oled_task sends nothing and takes no lock, and an attempt
\* with e = 0 leads to the update loop, which is never left for another
\* attempt.
C3_BoundedRetry ==
    /\ [](Attempting => try \in 0 .. (TryBudget - 1))
    /\ [][(tpc' = "bu_lock" /\ tpc # "bu_lock")
            => (tpc = "bu_loop" /\ try > 0 /\ try' = try - 1)]_vars
    /\ [][(tpc = "bu_unlock" /\ tpc' # tpc)
            => tpc' = (IF e = 0 THEN "bu_after" ELSE "bu_loop")]_vars
    /\ []((tpc = "bu_after" /\ e # 0) => try = -1)
    /\ [][(tpc = "bu_after" /\ tpc' # tpc)
            => tpc' = (IF e = 0 THEN "poll" ELSE "bu_free")]_vars
    /\ [][Disabled => (Disabled' /\ wire' = wire /\ mutex' # Task)]_vars
    /\ [](tpc = "deleted" => (oled = "null" /\ wire = <<>>))
    /\ [][Running => Running']_vars

\* the tenth attempt failed and the task has released the plane and ended
C3_Witness == tpc = "deleted" /\ oled = "null" /\ try = -1 /\ e # 0

\* C4: once the plane pointer is NULL no call changes the cursor, the
\* alignment, the colours or the dirty / contrast flags, and none accesses
\* the released plane storage.
C4_DisabledNoOps ==
    [][oled = "null"
         => (/\ UNCHANGED <<x, y, a, f, b, oled_changed, oled_update,
                            oled_contrast>>
             /\ badAccess' = badAccess)]_vars

\* C5: while oled_task is between its oled_lock and oled_unlock (which is
\* where it sends the frame) it holds the mutex and no caller is in a
\* section; a caller in a section holds the mutex; at most one actor holds it.
C5_NoRace ==
    /\ TaskHolds => (mutex = Task /\ \A c \in Callers : cpc[c] = "idle")
    /\ \A c \in Callers : cpc[c] # "idle" => (mutex = Caller(c) /\ ~TaskHolds)
    /\ Cardinality({c \in Callers : cpc[c] # "idle"}) <= 1
    /\ oled_locks = (IF mutex = Free THEN 0 ELSE 1)

\* oled_task is about to send the frame data of an update cycle, and the
\* frame holds changes drawn by a caller
C5_Witness == tpc = "up_send" /\ UpdateCmds[sendidx][1] = "data" /\ stale

\* C6: right after oled_lock returned, to a caller or to oled_task, the
\* drawing state is x = 0, y = 0, left | top | horizontal, 'w' on 'k'.
C6_LockResets ==
    LET Defaults == /\ x = 0
                    /\ y = 0
                    /\ a = OLED_L + OLED_T + OLED_H
                    /\ f = Ch_w
                    /\ b = Ch_k
    IN /\ \A c \in Callers : (cpc[c] = "cs" /\ cops = 0) => Defaults
       /\ tpc \in {"bu_reset", "bu_config", "up_clear"} => Defaults

\* a caller has just taken the lock, and an earlier section had drawn a
\* cell, which moved the cursor
C6_Witness ==
    /\ \E c \in Callers : cpc[c] = "cs" /\ cops = 0
    /\ \E k \in Cells : plane[k] # 0

\* C7: a step of a drawing call that changes a cell of the plane leaves
\* oled_changed set.
C7_DirtyOnChange == [][plane' # plane => oled_changed' = 1]_vars

\* C8: a call made in a section while oled_changed is clear, and that
\* leaves every cell as it was (for oled_text: whose glyph loop, which
\* follows, will store in every cell the value it holds), leaves
\* oled_changed clear.
C8_NoDirtyWithoutChange ==
    [][(/\ cops' = cops + 1
        /\ plane' = plane
        /\ drawn'.op = "text" => PixelRun(plane, drawn'.run, f, b) = plane
        /\ oled_changed = 0)
         => oled_changed' = 0]_vars

\* C9 as claimed: in an update cycle the contrast command comes before the
\* frame data.
C9_ContrastBeforeData ==
    Running =>
        \A i, j \in DOMAIN wire :
            (wire[i][1] = "C7" /\ wire[j][1] = "data") => i < j

\* C9 as amended: storing a new contrast raises oled_update and
\* oled_changed and leaves the mutex alone; a raised oled_update always has
\* an update cycle ahead of it; the cycle that finds it raised clears it and
\* sends one contrast command, with the stored value, after the frame data.
C9_ContrastQueuing ==
    /\ [][oled_contrast' # oled_contrast
            => (/\ oled # "null"
                /\ oled_update' = 1
                /\ oled_changed' = 1
                /\ mutex' = mutex)]_vars
    /\ []((Running /\ oled_update = 1)
            => (oled_changed = 1 \/ tpc \in {"up_send", "up_update"}))
    /\ [][(tpc = "up_update" /\ tpc' # tpc)
            => IF oled_update # 0
               THEN oled_update' = 0 /\ tpc' = "up_contrast"
               ELSE tpc' = "up_unlock"]_vars
    /\ [][(tpc = "up_contrast" /\ tpc' # tpc)
            => (/\ wire' = Append(wire, <<"C7", Shr(oled_contrast, 4)>>)
                /\ tpc' = "up_unlock")]_vars
    /\ [](tpc = "up_unlock"
            => wire \in {UpdateCmds}
                 \cup {Append(UpdateCmds, <<"C7", Shr(v, 4)>>) :
                         v \in ContrastInputs \cup {255}})

\* a cycle has sent the frame and then the contrast a caller had stored
C9_Witness ==
    /\ tpc = "up_unlock"
    /\ oled_update = 0
    /\ \E v \in ContrastInputs :
         /\ oled_contrast = v
         /\ wire = Append(UpdateCmds, <<"C7", Shr(v, 4)>>)

\* C10: oled_task leaves its poll only with oled_changed set, clears it
\* holding the mutex before the first send of the cycle, sends only inside
\* such a cycle, and sends nothing while it polls with oled_changed clear.
C10_OnlyWhenChanged ==
    /\ [][(tpc = "poll" /\ tpc' # tpc)
            => (oled_changed # 0 /\ tpc' = "up_lock")]_vars
    /\ [](tpc \in {"up_lock", "up_clear"} => oled_changed # 0)
    /\ [][(Running /\ oled_changed # 0 /\ oled_changed' = 0)
            => (tpc = "up_clear" /\ mutex = Task /\ wire = <<>>)]_vars
    /\ [][(Running /\ wire' # wire /\ wire' # <<>>)
            => (mutex = Task /\ tpc \in {"up_send", "up_contrast"})]_vars
    /\ [][(tpc = "poll" /\ oled_changed = 0 /\ oled_changed' = 0)
            => (tpc' = "poll" /\ wire' = wire)]_vars

\* oled_task is about to send the frame data, having cleared oled_changed
C10_Witness ==
    /\ tpc = "up_send"
    /\ UpdateCmds[sendidx][1] = "data"
    /\ oled_changed = 0
    /\ mutex = Task

\* C11: no step of oled_task, in a bring-up attempt or in an update cycle,
\* changes the cursor, the alignment or the colour tokens.
C11_TaskLeavesState ==
    [][tpc' # tpc => UNCHANGED <<x, y, a, f, b, f_mul, b_mul>>]_vars

\* C12: a call that places a w x h box (oled_fill, oled_box, oled_icon16,
\* and oled_text with a loaded font) at cursor (x, y) with alignment a gets
\* as origin left = x - (w - 1) / 2 if both centre bits are set, x - (w - 1)
\* if only the right bit is set, else x, and top likewise from y, h and the
\* middle / bottom bits; oled_fill(11, 7, 255) at cursor (50, 50) with
\* centre | middle makes its oled_pixel calls on exactly the columns
\* 45 .. 55 of the rows 47 .. 53.
C12_AnchorPlacement ==
    [][(cops' = cops + 1 /\ drawn'.op \in {"fill", "box", "icon", "text"}
          /\ "l" \in DOMAIN drawn')
         => LET w == drawn'.w
                h == drawn'.h
                left == IF BitAnd(a, OLED_L) # 0 /\ BitAnd(a, OLED_R) # 0
                        THEN x - CDiv(w - 1, 2)
                        ELSE IF BitAnd(a, OLED_R) # 0 THEN x - (w - 1)
                        ELSE x
                top == IF BitAnd(a, OLED_T) # 0 /\ BitAnd(a, OLED_B) # 0
                       THEN y - CDiv(h - 1, 2)
                       ELSE IF BitAnd(a, OLED_B) # 0 THEN y - (h - 1)
                       ELSE y
            IN /\ drawn'.l = left
               /\ drawn'.t = top
               /\ (/\ drawn'.op = "fill" /\ w = 11 /\ h = 7
                   /\ x = 50 /\ y = 50 /\ a = OLED_C + OLED_M)
                    => (/\ drawn'.l = 45
                        /\ drawn'.t = 47
                        /\ Len(drawn'.run) = 77
                        /\ {<<drawn'.run[k][1], drawn'.run[k][2]>> :
                               k \in DOMAIN drawn'.run}
                             = (45 .. 55) \X (47 .. 53))]_vars

\* oled_fill(11, 7, 255) was made at cursor (50, 50) with centre | middle
C12_Witness ==
    /\ a = OLED_C + OLED_M
    /\ drawn.op = "fill"
    /\ drawn.w = 11 /\ drawn.h = 7 /\ drawn.i = 255
    /\ drawn.l = 45 /\ drawn.t = 47
    /\ x = 50 /\ y = 50

\* C13: a call that places a w x h box with margins wm, hm (0 for oled_fill,
\* oled_box and oled_icon16) moves the cursor once: with the horizontal-move
\* bit, x grows by w + wm if the left bit is set and shrinks by w + wm if
\* the right bit is set, without it x stays; y likewise with the
\* vertical-move, top and bottom bits and h + hm; the alignment stays.
\* oled_pos(newx, newy, newa) sets the cursor, and the alignment to newa, or
\* to left | top | horizontal-move when newa is 0.  No other call moves the
\* cursor.
C13_CursorMovement ==
    [][cops' = cops + 1
         => IF "l" \in DOMAIN drawn'
            THEN LET dx == drawn'.w + (IF drawn'.op = "text" THEN drawn'.wm ELSE 0)
                     dy == drawn'.h + (IF drawn'.op = "text" THEN drawn'.hm ELSE 0)
                     hmove == BitAnd(a, OLED_H) # 0
                     vmove == BitAnd(a, OLED_V) # 0
                 IN /\ x' = x + (IF hmove /\ BitAnd(a, OLED_L) # 0 THEN dx ELSE 0)
                              - (IF hmove /\ BitAnd(a, OLED_R) # 0 THEN dx ELSE 0)
                    /\ y' = y + (IF vmove /\ BitAnd(a, OLED_T) # 0 THEN dy ELSE 0)
                              - (IF vmove /\ BitAnd(a, OLED_B) # 0 THEN dy ELSE 0)
                    /\ a' = a
            ELSE IF drawn'.op = "pos"
            THEN /\ x' = drawn'.newx
                 /\ y' = drawn'.newy
                 /\ a' = (IF drawn'.newa = 0 THEN OLED_L + OLED_T + OLED_H
                          ELSE drawn'.newa)
            ELSE UNCHANGED <<x, y, a>>]_vars

\* oled_box(3, 5, ...) at cursor (50, 50) with right | bottom and both move
\* bits has moved the cursor back by 3 and up by 5
C13_Witness ==
    /\ a = OLED_R + OLED_B + OLED_H + OLED_V
    /\ drawn.op = "box" /\ drawn.w = 3 /\ drawn.h = 5
    /\ x = 47 /\ y = 45

\* C14 as claimed: the width oled_text passes to oled_draw is the sum of the
\* widths of the characters less one pixel, 23 for "88" at size 2.
C14_TextWidthLessOne ==
    (drawn.op = "text" /\ "w" \in DOMAIN drawn)
      => LET s == drawn.index
             t == drawn.temp
             cw(c) == IF c >= 128 THEN 0
                      ELSE IF s = 0 THEN 4
                      ELSE IF c < 32 THEN c * s
                      ELSE IF c \in {46, 58} THEN 2 * s
                      ELSE 6 * s
             sum[n \in 0 .. Len(t)] ==
                 IF n = 0 THEN 0 ELSE sum[n - 1] + cw(t[n])
         IN /\ drawn.w = sum[Len(t)] - 1
            /\ (s = 2 /\ t = <<56, 56>>) => drawn.w = 23

\* C14 as amended: the string is cut to the Width / 4 + 1 characters the
\* buffer holds; a character measures 0 if its bit 7 is set, else 4 at size
\* 0, else c * size if it is below the space, 2 * size if it is '.' or ':',
\* and 6 * size otherwise; the width oled_text passes to oled_draw is the
\* sum of these less the right hand margin, which is size pixels (1 pixel
\* at size 0), and is 0 when the sum is 0; "88" at size 2 measures
\* 2 * 12 - 2 = 22.
C14_TextWidth ==
    (drawn.op = "text" /\ "w" \in DOMAIN drawn)
      => LET s == drawn.index
             t == drawn.temp
             keep == (Width \div 4) + 1
             cw(c) == IF c >= 128 THEN 0
                      ELSE IF s = 0 THEN 4
                      ELSE IF c < 32 THEN c * s
                      ELSE IF c \in {46, 58} THEN 2 * s
                      ELSE 6 * s
             sum[n \in 0 .. Len(t)] ==
                 IF n = 0 THEN 0 ELSE sum[n - 1] + cw(t[n])
         IN /\ Len(t) = (IF Len(drawn.str) < keep THEN Len(drawn.str) ELSE keep)
            /\ \A n \in 1 .. Len(t) : t[n] = drawn.str[n]
            /\ drawn.wm = (IF s = 0 THEN 1 ELSE s)
            /\ drawn.w = (IF sum[Len(t)] = 0 THEN 0 ELSE sum[Len(t)] - drawn.wm)
            /\ (s = 2 /\ t = <<56, 56>>) => drawn.w = 22

\* oled_text(2, "88") has placed a box of width 2 * 12 - 2
C14_Witness ==
    /\ drawn.op = "text"
    /\ "w" \in DOMAIN drawn
    /\ drawn.size = 2
    /\ drawn.str = <<56, 56>>
    /\ drawn.temp = <<56, 56>>
    /\ drawn.w = 22

\* C15: the index oled_text uses to select the font is within the table
\* 0 .. NFonts - 1, a size beyond the table selects the last font of the
\* table, and a slot with no font loaded makes the call draw nothing.
C15_FontIndexInTable ==
    (drawn.op = "text" /\ "index" \in DOMAIN drawn)
      => LET size == IF drawn.size < 0 THEN -drawn.size ELSE drawn.size
         IN /\ drawn.index \in 0 .. (NFonts - 1)
            /\ size > NFonts - 1 => drawn.index = NFonts - 1
            /\ size <= NFonts - 1 => drawn.index = size
            /\ ~fonts[drawn.index] => (~drawn.loaded /\ drawn.run = <<>>)

\* C16: on an allocated plane no drawing call stores outside the Width *
\* Height cells, and a cell changes only if an oled_pixel call of that
\* drawing call named the cell's own column and row: a call with a
\* coordinate off the display changes no cell.
C16_NoStrayWrites ==
    /\ [](DOMAIN plane = Cells)
    /\ [](oled = "alloc" => ~badAccess)
    /\ [][\A k \in Cells :
            plane'[k] # plane[k]
              => /\ "run" \in DOMAIN drawn'
                 /\ \E j \in DOMAIN drawn'.run :
                       /\ drawn'.run[j][1] = k % Width
                       /\ drawn'.run[j][2] = k \div Width]_vars
    /\ [][(cops' = cops + 1 /\ "run" \in DOMAIN drawn')
            => RunIndexes(drawn'.run) \subseteq Cells]_vars

\* oled_fill(2, 2, 15) at (-1, 0): of its oled_pixel calls at (-1, 0),
\* (0, 0), (-1, 1), (0, 1) only the one at (0, 0) changed a cell
C16_Witness ==
    /\ drawn.op = "fill"
    /\ drawn.w = 2 /\ drawn.h = 2
    /\ drawn.l = -1 /\ drawn.t = 0
    /\ plane[0] # 0
    /\ plane[1] = 0

\* C17: a cell stored by oled_fill, oled_box or oled_clear with intensity i
\* holds f_mul * (i >> ISHIFT) + b_mul * ((~i) >> ISHIFT) modulo 2^16, in
\* either byte order and with ~i taken on 8 bits or on an int, f_mul and
\* b_mul being the lookup results of the current tokens (an unrecognised
\* token giving WHITE); with 'w' on 'k' intensity 0 stores 0.
C17_PixelComposition ==
    drawn.op \in {"fill", "box", "clear"}
      => /\ f_mul = oled_colour_lookup(f)
         /\ b_mul = oled_colour_lookup(b)
         /\ f \notin {75, 107, 114, 69, 103, 71, 98, 66, 99, 67, 109, 77, 121,
                       89, 119, 111, 79} => f_mul = WHITE
         /\ \A j \in DOMAIN drawn.run :
               PixelInDisplay(drawn.run[j][1], drawn.run[j][2])
                 => LET i == drawn.i
                        cell == plane[PixelIndex(drawn.run[j][1], drawn.run[j][2])]
                        v8 == ((f_mul * (i \div 16)) + (b_mul * ((255 - i) \div 16)))
                                % 65536
                        vint == ((f_mul * (i \div 16)) + (b_mul * ((-(i + 1)) \div 16)))
                                  % 65536
                    IN /\ cell \in {v8, ntohs(v8), vint, ntohs(vint)}
                       /\ (f = Ch_w /\ b = Ch_k /\ i = 0) => cell = 0

\* C18: for w, h >= 1 the oled_pixel calls of oled_box(w, h, i) name exactly
\* the perimeter of the w x h rectangle at the origin (l, t): its top and
\* bottom rows and its left and right columns.
C18_BoxPerimeter ==
    (drawn.op = "box" /\ drawn.w >= 1 /\ drawn.h >= 1)
      => LET l == drawn.l
             t == drawn.t
             w == drawn.w
             h == drawn.h
             perimeter ==
                 {p \in (l .. (l + w - 1)) \X (t .. (t + h - 1)) :
                     \/ p[1] \in {l, l + w - 1}
                     \/ p[2] \in {t, t + h - 1}}
         IN {<<drawn.run[k][1], drawn.run[k][2]>> : k \in DOMAIN drawn.run}
              = perimeter

\* C19: a bring-up attempt ends the retry loop and enters the update loop
\* only if every send of the attempt succeeded, the window commands and the
\* frame data included; an attempt in which a send failed is followed by
\* another attempt or by the release of the plane.
C19_FailureDetected ==
    [][(tpc = "bu_unlock" /\ tpc' # tpc)
         => IF nfail = 0 THEN tpc' = "bu_after" /\ e = 0
            ELSE tpc' = "bu_loop" /\ e # 0]_vars

\* C20: oled_task releases the plane storage only while no caller is
\* between oled_lock and oled_unlock, and no caller in a section stores
\* through the pointer to the released storage.
C20_ReleaseOutsideSections ==
    /\ [][(oled = "alloc" /\ oled' = "freed")
            => \A c \in Callers : cpc[c] = "idle"]_vars
    /\ [][(oled = "freed" /\ ~badAccess) => ~badAccess']_vars

\* C21: with alignment left | top | horizontal-move and a loaded font,
\* oled_text moves the cursor right by the sum of the widths of the
\* characters of the (truncated) string, by 0 for a string of no width, and
\* leaves y as it was.
C21_TextAdvance ==
    [][(/\ cops' = cops + 1
        /\ drawn'.op = "text"
        /\ "l" \in DOMAIN drawn'
        /\ a = OLED_L + OLED_T + OLED_H)
         => /\ x' = x + TextWidthSum(drawn'.temp, drawn'.index)
            /\ y' = y]_vars

====
